---- MODULE Spec2Model ----
(***************************************************************************)
(* The user-account backend of the video-sharing application: the user     *)
(* controllers (register, login, logout, refresh-token, update-user,       *)
(* update-avatar), the user schema with its save hook, and the Cloudinary  *)
(* helpers, modelled as concurrently served HTTP requests over one         *)
(* document store and one media host.  A request is split at the awaits    *)
(* that read or write the store or the media host; everything between two  *)
(* such awaits is one action.                                              *)
(***************************************************************************)
EXTENDS Integers, Sequences, FiniteSets, TLC

\* ------------------------------------------------------------------ bounds
MaxRequests == 2
MaxClock == 1

\* the request handlers that may be in flight at once
Slots == {1, 2}

\* ------------------------------------------------------------ input values
\* "" is the empty string a client may send; Missing is a field that was not
\* sent at all (undefined in the handler).
Missing == "<undefined>"
Usernames == {"ann", "bob", "Ann"}
Emails == {"a@x.com", "b@x.com", "bad"}
Passwords == {"p1", "p2"}
\* req.files as multer leaves it: not a multipart request (undefined), an
\* object without an avatar entry, the avatar alone, avatar and cover image.
FileSets == {"undefined", "empty", "avatar", "avatar+cover"}

\* validator.isEmail / validator.isLowercase / String.prototype.toLowerCase
isEmail(e) == e \in {"a@x.com", "b@x.com"}
toLowerCase(s) == IF s = "Ann" THEN "ann" ELSE s
isLowercase(s) == toLowerCase(s) = s

\* the register requests sent: the well-formed ones for every username and
\* email, one with a cover image, and one request with a single fault for
\* each check of the handler
RegisterInputs ==
    LET all == [fullName : {"Ann Lee", ""}, email : Emails, username : Usernames,
                password : {"p1"}, files : FileSets]
        ok(i) == /\ i.fullName # "" /\ isEmail(i.email) /\ isLowercase(i.username)
                 /\ i.files \in {"avatar", "avatar+cover"}
        base == [fullName |-> "Ann Lee", email |-> "a@x.com", username |-> "ann",
                 password |-> "p1", files |-> "avatar"]
        faults(i) == Cardinality({f \in DOMAIN i : i[f] # base[f]})
    IN {i \in all : (ok(i) /\ i.files = "avatar") \/ faults(i) = 1}

\* the login requests sent: each of email and username absent, well-formed
\* or malformed, with the right password, a wrong one or an empty one
LoginInputs ==
    [email : {Missing, "a@x.com", "bad"}, username : {Missing, "ann", "Ann"},
     password : Passwords]
    \cup {[email |-> Missing, username |-> "ann", password |-> ""]}

\* the update-user requests sent
UpdateInputs ==
    [fullName : {"A. Lee"}, email : {"a@x.com", "b@x.com", Missing}]
    \cup {[fullName |-> Missing, email |-> "a@x.com"]}

\* ---------------------------------------------------------------- tokens
\* jwt.sign is a function of the payload, the secret and the issue time in
\* whole seconds (iat; exp = iat + the configured expiry): two tokens signed
\* for one user in the same second are the same string.  Only the _id claim
\* of the payload is read back by the handlers.
Token(kind, uid, now) == [kind |-> kind, uid |-> uid, iat |-> now]
\* no token: an absent cookie, an undefined local, an unset or null field
NoToken == Token("none", 0, 0)
\* a string that jwt.verify rejects (bad signature, malformed, expired)
Forged == Token("forged", 0, 0)

generateAccessToken(uid, now) == Token("access", uid, now)

generateRefreshToken(uid, now) == Token("refresh", uid, now)

\* jwt.verify(token, REFRESH_TOKEN_SECRET): TRUE when it returns the payload
jwtVerifyRefresh(t) == t.kind = "refresh"

\* -------------------------------------------------------------- passwords
\* bcrypt.hash(p, 10); the digest is a string that is never a plaintext
bcryptHash(p) == IF p = "p1" THEN "$2b$10$p1" ELSE
                 IF p = "p2" THEN "$2b$10$p2" ELSE "$2b$10$"

\* a save hook with its test inverted: the new password is stored as sent
preSaveSkipsHash(doc, passwordModified) ==
    IF passwordModified THEN doc
    ELSE [doc EXCEPT !.password = bcryptHash(doc.password)]

\* userSchema.pre("save"): hash the password only when it was modified
preSave(doc, passwordModified) ==
    IF ~passwordModified THEN doc
    ELSE [doc EXCEPT !.password = bcryptHash(doc.password)]

\* userSchema.methods.isPasswordCorrect: bcrypt.compare(password, this.password)
isPasswordCorrect(doc, password) == doc.password = bcryptHash(password)

\* ------------------------------------------------------------ media host
\* the response of a successful upload: { url, public_id }
Url(id) == <<id>>
NoUrl == <<>>
NoAsset == 0

\* ------------------------------------------------------------- the store
UserFields == {"_id", "username", "email", "fullName", "avatar", "avatarId",
               "coverImage", "coverImageId", "watchHistory", "password",
               "refreshToken", "createdAt", "updatedAt"}

\* Query.select("-a -b ..."): the fields of the returned document
selectFields(excluded) == UserFields \ excluded

VARIABLES
    users,      \* the User collection, in insertion order; _id is the index
    assets,     \* the asset ids that exist at the media host
    nextAsset,  \* the next public_id the media host hands out
    clock,      \* the time in whole seconds when a token was last signed
    delivered,  \* the tokens that clients received in responses
    rotated,    \* refresh tokens that a successful refresh call presented
    revoked,    \* refresh tokens that were stored when their user logged out
    loggedOut,  \* the users who logged out and for whom no login came since
    issued,     \* per user, the refresh token signed last (NoToken once the
                \* save of a signed token failed)
    req,        \* the requests in flight
    last,       \* the request answered by the latest step, with its response
    nreq,       \* requests started so far
    omitUndefined  \* does the installed Mongoose strip undefined update keys

vars == <<users, assets, nextAsset, clock, delivered, rotated, revoked,
          loggedOut, issued, req, last, nreq, omitUndefined>>

Ids == 1..Len(users)

\* a schema without its unique indexes
UniqueOkNoIndex(us, id, username, email) == TRUE

\* the unique indexes of userSchema (username, email): would writing
\* username/email on record id (0 = a new record) break one of them?
UniqueOk(us, id, username, email) ==
    \A j \in 1..Len(us) :
        j # id => us[j].username # username /\ us[j].email # email

\* User.findOne({ $or: [{ username }, { email }] }): the first match in
\* natural order, 0 when there is none.  The query values pass through the
\* schema's setters (lowercase: true), as the stored values did.
findOne(us, username, email) ==
    LET hits == {j \in 1..Len(us) :
                    \/ us[j].username = toLowerCase(username)
                    \/ us[j].email = toLowerCase(email)}
    IN IF hits = {} THEN 0 ELSE CHOOSE j \in hits : \A k \in hits : j <= k

\* ---------------------------------------------------------- request slots
\* the temporary files multer wrote to disk for the request before the
\* handler ran, named by their form field
tempFilesOf(files) ==
    IF files = "avatar" THEN {"avatar"}
    ELSE IF files = "avatar+cover" THEN {"avatar", "coverImage"}
    ELSE IF files = "coverImage" THEN {"coverImage"}
    ELSE {}

\* uploadOnCloudinary(localFilePath), as far as the disk goes: nothing
\* without a path; else one fs.unlinkSync(localFilePath), after the upload
\* or in the catch block when the upload threw
uploadOnCloudinary(rec, field) ==
    IF field \notin rec.tempFiles THEN rec
    ELSE [rec EXCEPT !.unlinked = Append(@, field)]

Idle == [op |-> "none", pc |-> "idle",
         fullName |-> Missing, email |-> Missing, username |-> Missing,
         password |-> Missing, files |-> "undefined", incoming |-> NoToken,
         uid |-> 0, docToken |-> NoToken,
         accessToken |-> NoToken, refreshToken |-> NoToken,
         avatarAsset |-> NoAsset, coverAsset |-> NoAsset, oldAssetId |-> NoAsset,
         deletes |-> <<>>,
         status |-> 0, message |-> "",
         cookieAccess |-> NoToken, cookieRefresh |-> NoToken,
         bodyAccess |-> NoToken, bodyRefresh |-> NoToken,
         respFields |-> {},
         replacedId |-> NoAsset,
         tempFiles |-> {}, unlinked |-> <<>>,
         fault |-> FALSE, newPassword |-> Missing,
         alone |-> TRUE, late |-> FALSE, afterLogout |-> FALSE]

Free(r) == req[r].pc = "idle"
Busy(r) == ~Free(r)

\* a new request takes the lowest free slot
CanStart(r) ==
    /\ nreq < MaxRequests
    /\ Free(r)
    /\ \A s \in Slots : s < r => Busy(s)

\* slot r moves on to rec; a request that is answered leaves its slot
Continue(r, rec) ==
    /\ req' = [req EXCEPT ![r] = IF rec.pc = "done" THEN Idle ELSE rec]
    /\ last' = IF rec.pc = "done" THEN rec ELSE Idle

\* a request starts in slot r and gets as far as rec; it is alone when no
\* other request is in flight, and the requests in flight stop being alone
Begin(r, rec) ==
    LET mine == [rec EXCEPT !.alone = \A o \in Slots \ {r} : Free(o)]
    IN /\ req' = [s \in Slots |->
                    IF s = r THEN (IF mine.pc = "done" THEN Idle ELSE mine)
                    ELSE IF Busy(s) THEN [req[s] EXCEPT !.alone = FALSE]
                    ELSE req[s]]
       /\ last' = IF mine.pc = "done" THEN mine ELSE Idle
       /\ nreq' = nreq + 1

\* asyncHandler + the error middleware: a thrown ApiError(status, message)
\* becomes the response; any other exception is answered with status 500
Throw(rec, status, message) ==
    [rec EXCEPT !.pc = "done", !.status = status, !.message = message]

\* verifyJWT: the bearer of an access token of user id is authenticated
Authenticated(id) ==
    /\ id \in Ids
    /\ \E t \in delivered : t.kind = "access" /\ t.uid = id

\* a registerUser that does not look for an existing user
registerUserNoLookup(rec, us) ==
    IF \E f \in {rec.fullName, rec.email, rec.username, rec.password} : f = ""
    THEN Throw(rec, 400, "all fields are must.")
    ELSE IF ~isEmail(rec.email)
    THEN Throw(rec, 400, "email is invalid.")
    ELSE IF ~isLowercase(rec.username)
    THEN Throw(rec, 400, "username should be lowercase.")
    ELSE IF rec.files = "empty"
    THEN Throw(rec, 500, "TypeError")
    ELSE IF rec.files = "undefined"
    THEN Throw(rec, 400, "avatar is required.")
    ELSE [rec EXCEPT !.pc = "regUpload"]

\* ---------------------------------------------------------------- register
\* registerUser up to its first upload: the field checks, the lookup of an
\* existing user and the check that an avatar file came with the request
registerUser(rec, us) ==
    IF \E f \in {rec.fullName, rec.email, rec.username, rec.password} : f = ""
    THEN Throw(rec, 400, "all fields are must.")
    ELSE IF ~isEmail(rec.email)
    THEN Throw(rec, 400, "email is invalid.")
    ELSE IF ~isLowercase(rec.username)
    THEN Throw(rec, 400, "username should be lowercase.")
    ELSE IF findOne(us, rec.username, rec.email) # 0
    THEN Throw(rec, 409, "email or username already in use.")
    ELSE IF rec.files = "empty"
    THEN Throw(rec, 500, "TypeError")   \* req.files.avatar[0] of undefined
    ELSE IF rec.files = "undefined"
    THEN Throw(rec, 400, "avatar is required.")
    ELSE [rec EXCEPT !.pc = "regUpload"]

RegisterStart(r) ==
    \E i \in RegisterInputs :
        /\ CanStart(r)
        /\ Begin(r, registerUser(
                     [Idle EXCEPT !.op = "register", !.fullName = i.fullName,
                                  !.email = i.email, !.username = i.username,
                                  !.password = i.password, !.files = i.files,
                                  !.tempFiles = tempFilesOf(i.files)],
                     users))
        /\ UNCHANGED <<users, assets, nextAsset, clock, delivered, rotated,
                       revoked, loggedOut, issued,
                       omitUndefined>>

\* the document User.create builds from the request, before the save hook
newUser(rec) ==
    [username |-> toLowerCase(rec.username), email |-> rec.email,
     fullName |-> rec.fullName,
     avatar |-> Url(rec.avatarAsset), avatarId |-> rec.avatarAsset,
     coverImage |-> IF rec.coverAsset = NoAsset THEN NoUrl ELSE Url(rec.coverAsset),
     coverImageId |-> rec.coverAsset,
     password |-> rec.password, refreshToken |-> NoToken]

\* the fields registerUser leaves out of the record it returns
registerExcluded == {"password", "refreshToken", "avatarId", "coverImageId"}

\* a registerUser that creates the user whatever the avatar upload returned
createUserUnchecked(rec, us) ==
    LET doc == preSave(newUser(rec), TRUE)
    IN IF ~UniqueOk(us, 0, doc.username, doc.email)
       THEN [users |-> us, rec |-> Throw(rec, 500, "E11000 duplicate key")]
       ELSE [users |-> Append(us, doc),
             rec |-> [rec EXCEPT !.pc = "done", !.status = 201,
                        !.message = "User registered successfully!",
                        !.uid = Len(us) + 1,
                        !.respFields = selectFields(registerExcluded)]]

\* registerUser after both uploads: it stops when the avatar upload failed;
\* else User.create (save hook, unique indexes), the read-back without the
\* secret fields, and the 201 response
createUser(rec, us) ==
    LET doc == preSave(newUser(rec), TRUE)
    IN IF rec.avatarAsset = NoAsset
       THEN [users |-> us, rec |-> Throw(rec, 400, "avatar is required.")]
       ELSE IF ~UniqueOk(us, 0, doc.username, doc.email)
       THEN [users |-> us, rec |-> Throw(rec, 500, "E11000 duplicate key")]
       ELSE [users |-> Append(us, doc),
             rec |-> [rec EXCEPT !.pc = "done", !.status = 201,
                        !.message = "User registered successfully!",
                        !.uid = Len(us) + 1,
                        !.respFields = selectFields(registerExcluded)]]

\* uploadOnCloudinary(avatarLocalPath), uploadOnCloudinary(coverImageLocalPath)
\* (null at once when no cover image was sent), then the rest of registerUser.
\* The uploads touch nothing but the media host, so they are taken together
\* with the create that follows them.
RegisterUpload(r) ==
    \E okAvatar \in BOOLEAN, okCover \in BOOLEAN :
        /\ req[r].pc = "regUpload"
        /\ okCover => req[r].files = "avatar+cover"
        /\ LET avatar == IF okAvatar THEN nextAsset ELSE NoAsset
               next == IF okAvatar THEN nextAsset + 1 ELSE nextAsset
               cover == IF okCover THEN next ELSE NoAsset
               sent == uploadOnCloudinary(uploadOnCloudinary(req[r], "avatar"),
                                          "coverImage")
               out == createUser([sent EXCEPT !.avatarAsset = avatar,
                                              !.coverAsset = cover], users)
           IN /\ assets' = assets \cup ({avatar, cover} \ {NoAsset})
              /\ nextAsset' = IF okCover THEN next + 1 ELSE next
              /\ users' = out.users
              /\ Continue(r, out.rec)
        /\ UNCHANGED <<clock, delivered, rotated, revoked, loggedOut, issued,
                       nreq, omitUndefined>>

\* the store, the media host and the clients when the server starts: an
\* empty store; or ann (avatar 1, cover image 2) and bob (avatar 3, no cover
\* image) as earlier registrations left them, with nobody logged in or with
\* both logged in during second 0
seedUser(username, email, avatarAsset, coverAsset) ==
    preSave(newUser([Idle EXCEPT !.fullName = "Ann Lee", !.username = username,
                       !.email = email, !.password = "p1",
                       !.avatarAsset = avatarAsset, !.coverAsset = coverAsset]),
            TRUE)

Seeds ==
    LET ann == seedUser("ann", "a@x.com", 1, 2)
        bob == seedUser("bob", "b@x.com", 3, NoAsset)
        annIn == [ann EXCEPT !.refreshToken = generateRefreshToken(1, 0)]
        bobIn == [bob EXCEPT !.refreshToken = generateRefreshToken(2, 0)]
    IN {[users |-> <<>>, assets |-> {}, nextAsset |-> 1, delivered |-> {},
         issued |-> <<>>],
        [users |-> <<ann, bob>>, assets |-> {1, 2, 3}, nextAsset |-> 4,
         delivered |-> {}, issued |-> <<>>],
        [users |-> <<annIn, bobIn>>, assets |-> {1, 2, 3}, nextAsset |-> 4,
         delivered |-> {generateAccessToken(1, 0), generateRefreshToken(1, 0),
                        generateAccessToken(2, 0), generateRefreshToken(2, 0)},
         issued |-> <<generateRefreshToken(1, 0), generateRefreshToken(2, 0)>>]}

Init ==
    /\ \E seed \in Seeds : /\ users = seed.users
                           /\ assets = seed.assets
                           /\ nextAsset = seed.nextAsset
                           /\ delivered = seed.delivered
                           /\ issued = seed.issued
    /\ clock = 0
    /\ rotated = {}
    /\ revoked = {}
    /\ loggedOut = {}
    /\ req = [r \in Slots |-> Idle]
    /\ last = Idle
    /\ nreq = 0
    \* Mongoose 5 sends { $set: { k: undefined } } as k: null; Mongoose 6 and
    \* later strip the key.  The installed version is fixed per deployment.
    /\ omitUndefined \in BOOLEAN

\* the earlier loginUser, which asks for both the username and the email
loginUserBothRequired(rec, us) ==
    LET username == rec.username
        email == rec.email
        password == rec.password
        given(f) == f # Missing /\ f # ""          \* truthy
        formatOk == IF given(email) THEN isEmail(email)
                    ELSE IF given(username) THEN isLowercase(username)
                    ELSE FALSE
        existingUser == findOne(us, username, email)
    IN IF ~given(username) \/ ~given(email)
       THEN Throw(rec, 400, "username or email is required.")
       ELSE IF \/ given(username) /\ (username = "" \/ password = "")
               \/ given(email) /\ (email = "" \/ password = "")
       THEN Throw(rec, 400, "all fields are must")
       ELSE IF ~formatOk
       THEN Throw(rec, 400, "email or username is invalid.")
       ELSE IF existingUser = 0
       THEN Throw(rec, 404, "user does not exist.")
       ELSE IF ~isPasswordCorrect(us[existingUser], password)
       THEN Throw(rec, 400, "password incorrect.")
       ELSE [rec EXCEPT !.pc = "genLoad", !.uid = existingUser]

\* ------------------------------------------------------------------- login
\* loginUser up to the token generation: the field checks, the lookup and
\* the password check
loginUser(rec, us) ==
    LET username == rec.username
        email == rec.email
        password == rec.password
        given(f) == f # Missing /\ f # ""          \* truthy
        formatOk == IF given(email) THEN isEmail(email)
                    ELSE IF given(username) THEN isLowercase(username)
                    ELSE FALSE
        existingUser == findOne(us, username, email)
    IN IF ~given(username) /\ ~given(email)
       THEN Throw(rec, 400, "username or email is required.")
       ELSE IF \/ given(username) /\ (username = "" \/ password = "")
               \/ given(email) /\ (email = "" \/ password = "")
       THEN Throw(rec, 400, "all fields are must")
       ELSE IF ~formatOk
       THEN Throw(rec, 400, "email or username is invalid.")
       ELSE IF existingUser = 0
       THEN Throw(rec, 404, "user does not exist.")
       ELSE IF ~isPasswordCorrect(us[existingUser], password)
       THEN Throw(rec, 400, "password incorrect.")
       ELSE [rec EXCEPT !.pc = "genLoad", !.uid = existingUser]

LoginStart(r) ==
    \E i \in LoginInputs :
        /\ CanStart(r)
        /\ Begin(r, loginUser(
                     [Idle EXCEPT !.op = "login", !.email = i.email,
                                  !.username = i.username, !.password = i.password],
                     users))
        /\ loggedOut' = loggedOut \ {findOne(users, i.username, i.email)}
        /\ UNCHANGED <<users, assets, nextAsset, clock, delivered, rotated,
                       revoked,
                       issued, omitUndefined>>

\* --------------------------------------------- generateAccessAndRefreshTokens
\* what generateAccessAndRefreshTokens returns
tokenPair(accessToken, refreshToken) ==
    [accessToken |-> accessToken, refreshToken |-> refreshToken]

\* const { a, b } = obj: a name that obj does not hold is undefined
destructure(obj, name) == IF name \in DOMAIN obj THEN obj[name] ELSE NoToken

\* the catch block of generateAccessAndRefreshTokens: whatever was thrown
\* while loading, signing or saving leaves it as one ApiError(500)
generateFailed(rec) ==
    Throw([rec EXCEPT !.fault = TRUE], 500,
          "Something went wrong while generating access and refresh tokens.")

\* the catch block of refreshAccessToken: whatever was thrown in its try
\* block is thrown again as ApiError(401, error.message)
refreshCatch(rec) == Throw(rec, 401, rec.message)

\* what the caller of a failed generateAccessAndRefreshTokens answers:
\* loginUser lets the error through, refreshAccessToken called it in its try
rotationFailed(rec) ==
    IF rec.op = "refresh" THEN refreshCatch(generateFailed(rec))
    ELSE generateFailed(rec)

\* issued, with token t signed for user id
noteIssued(iss, id, t) ==
    [j \in DOMAIN iss \cup {id} |-> IF j = id THEN t ELSE iss[j]]

\* User.findById(userId) and the signing of both tokens; the load may fail.
\* The time is read here only: it is the second of the previous signing or
\* a later one.
GenLoad(r) ==
    \E now \in clock..MaxClock, fails \in BOOLEAN :
        /\ req[r].pc = "genLoad"
        /\ fails => now = clock
        /\ clock' = now
        /\ issued' = IF fails THEN issued
                     ELSE noteIssued(issued, req[r].uid,
                                     generateRefreshToken(req[r].uid, now))
        /\ Continue(r, IF fails THEN rotationFailed(req[r])
                       ELSE [req[r] EXCEPT !.pc = "genSave",
                          !.docToken = users[req[r].uid].refreshToken,
                          !.accessToken = generateAccessToken(req[r].uid, now),
                          !.refreshToken = generateRefreshToken(req[r].uid, now)])
        /\ UNCHANGED <<users, assets, nextAsset, delivered, rotated, revoked,
                       loggedOut, nreq,
                       omitUndefined>>

\* a save whose hook hashes the password on every save
saveRefreshTokenRehashing(us, id, docToken, refreshToken) ==
    IF refreshToken = docToken THEN us
    ELSE [us EXCEPT ![id] = preSave([us[id] EXCEPT !.refreshToken = refreshToken],
                                    TRUE)]

\* user.refreshToken = refreshToken; user.save({ validateBeforeSave: false }):
\* save writes the paths that were modified on the loaded document
saveRefreshToken(us, id, docToken, refreshToken) ==
    IF refreshToken = docToken THEN us
    ELSE [us EXCEPT ![id] = preSave([us[id] EXCEPT !.refreshToken = refreshToken],
                                    FALSE)]

\* the names refreshAccessToken takes from the returned pair
refreshNames == [access |-> "accessToken", refresh |-> "newRefreshToken"]

\* a loginUser that takes the refresh token under the wrong name
loginNamesMisnamed == [access |-> "accessToken", refresh |-> "newRefreshToken"]

\* the names loginUser takes from the returned pair
loginNames == [access |-> "accessToken", refresh |-> "refreshToken"]

\* the 200 response of refreshAccessToken: both cookies and the body
refreshResponse(rec, pair) ==
    LET accessToken == destructure(pair, refreshNames.access)
        newRefreshToken == destructure(pair, refreshNames.refresh)
    IN [rec EXCEPT !.pc = "done", !.status = 200,
                   !.message = "access token refreshed.",
                   !.cookieAccess = accessToken, !.cookieRefresh = newRefreshToken,
                   !.bodyAccess = accessToken, !.bodyRefresh = newRefreshToken]

\* the tokens a response hands to the client
tokensOf(rec) ==
    {rec.cookieAccess, rec.cookieRefresh, rec.bodyAccess, rec.bodyRefresh}
        \ {NoToken}

\* the save that ends generateAccessAndRefreshTokens, which may fail;
\* refreshAccessToken answers right after it, loginUser reads the user back
\* first
GenSave(r) ==
    \E fails \in BOOLEAN :
        /\ req[r].pc = "genSave"
        /\ users' = IF fails THEN users
                    ELSE saveRefreshToken(users, req[r].uid, req[r].docToken,
                                          req[r].refreshToken)
        /\ issued' = IF fails THEN noteIssued(issued, req[r].uid, NoToken)
                     ELSE issued
        /\ LET pair == tokenPair(req[r].accessToken, req[r].refreshToken)
               rec == IF fails THEN rotationFailed(req[r])
                      ELSE IF req[r].op = "refresh"
                      THEN refreshResponse(req[r], pair)
                      ELSE [req[r] EXCEPT !.pc = "loginRespond"]
           IN /\ Continue(r, rec)
              /\ delivered' = IF req[r].op = "refresh"
                              THEN delivered \cup tokensOf(rec) ELSE delivered
              /\ rotated' = IF req[r].op = "refresh" /\ ~fails
                            THEN rotated \cup {req[r].incoming} ELSE rotated
        /\ UNCHANGED <<assets, nextAsset, clock, revoked, loggedOut, nreq,
                       omitUndefined>>

\* the fields loginUser leaves out of the user it returns
loginExcluded == {"password", "refreshToken", "avatarId", "coverImageId"}

\* the 200 response of loginUser
loginResponse(rec, pair) ==
    LET accessToken == destructure(pair, loginNames.access)
        refreshToken == destructure(pair, loginNames.refresh)
    IN [rec EXCEPT !.pc = "done", !.status = 200,
                   !.message = "user successfully logged in.",
                   !.cookieAccess = accessToken, !.cookieRefresh = refreshToken,
                   !.bodyAccess = accessToken, !.bodyRefresh = refreshToken,
                   !.respFields = selectFields(loginExcluded)]

\* User.findById(...).select(...) and the response of loginUser
LoginRespond(r) ==
    /\ req[r].pc = "loginRespond"
    /\ LET rec == loginResponse(req[r],
                      tokenPair(req[r].accessToken, req[r].refreshToken))
       IN /\ Continue(r, rec)
          /\ delivered' = delivered \cup tokensOf(rec)
    /\ UNCHANGED <<users, assets, nextAsset, clock, rotated, revoked,
                   loggedOut, issued, nreq, omitUndefined>>

\* ------------------------------------------------------------------ logout
\* User.findByIdAndUpdate(id, { $set: { refreshToken: undefined } })
clearRefreshToken(us, id, strip) ==
    IF strip THEN us ELSE [us EXCEPT ![id].refreshToken = NoToken]

LogoutUser(r) ==
    \E id \in Ids :
        /\ CanStart(r)
        /\ Authenticated(id)
        /\ users' = clearRefreshToken(users, id, omitUndefined)
        /\ revoked' = revoked \cup ({users[id].refreshToken} \ {NoToken})
        /\ loggedOut' = loggedOut \cup {id}
        /\ Begin(r, [Idle EXCEPT !.op = "logout", !.uid = id,
                        !.pc = "done", !.status = 200,
                        !.message = "user logged out successfully."])
        /\ UNCHANGED <<assets, nextAsset, clock, delivered, rotated, issued,
                       omitUndefined>>

\* a refreshAccessToken that does not compare the token with the stored one
refreshAccessTokenNoCompare(rec, us) ==
    LET incomingRefreshToken == rec.incoming
        id == incomingRefreshToken.uid
    IN IF incomingRefreshToken = NoToken
       THEN Throw(rec, 401, "unauthorized request.")
       ELSE IF ~jwtVerifyRefresh(incomingRefreshToken)
       THEN Throw(rec, 401, "jwt malformed")
       ELSE IF id \notin 1..Len(us)
       THEN Throw(rec, 401, "invalid refresh token.")
       ELSE [rec EXCEPT !.pc = "genLoad", !.uid = id]

\* ------------------------------------------------------------ refresh-token
\* refreshAccessToken up to the token generation
refreshAccessToken(rec, us) ==
    LET incomingRefreshToken == rec.incoming
        id == incomingRefreshToken.uid
    IN IF incomingRefreshToken = NoToken
       THEN Throw(rec, 401, "unauthorized request.")
       ELSE IF ~jwtVerifyRefresh(incomingRefreshToken)
       THEN Throw(rec, 401, "jwt malformed")
       ELSE IF id \notin 1..Len(us)
       THEN Throw(rec, 401, "invalid refresh token.")
       ELSE IF incomingRefreshToken # us[id].refreshToken
       THEN Throw(rec, 401, "refresh token is expired or used.")
       ELSE [rec EXCEPT !.pc = "genLoad", !.uid = id]

RefreshStart(r) ==
    \E incoming \in {NoToken, Forged} \cup {t \in delivered : t.kind = "refresh"} :
        /\ CanStart(r)
        /\ Begin(r, refreshAccessToken(
                     [Idle EXCEPT !.op = "refresh", !.incoming = incoming,
                                  !.late = incoming \in rotated,
                                  !.afterLogout = incoming \in revoked],
                     users))
        /\ UNCHANGED <<users, assets, nextAsset, clock, delivered, rotated,
                       revoked, loggedOut, issued,
                       omitUndefined>>

\* --------------------------------------------------------- change-password
\* a handler that does not compare the old password
changeCurrentPasswordUnverified(rec, us) == [rec EXCEPT !.pc = "cpSave"]

\* changeCurrentPassword up to its save: User.findById(req.user._id) and
\* the comparison of oldPassword with the stored hash
changeCurrentPassword(rec, us) ==
    IF ~isPasswordCorrect(us[rec.uid], rec.password)
    THEN Throw(rec, 401, "password incorrect.")
    ELSE [rec EXCEPT !.pc = "cpSave"]

ChangePasswordStart(r) ==
    \E id \in Ids, oldPassword \in Passwords, newPassword \in Passwords :
        /\ CanStart(r)
        /\ Authenticated(id)
        /\ Begin(r, changeCurrentPassword(
                       [Idle EXCEPT !.op = "changePassword", !.uid = id,
                                    !.password = oldPassword,
                                    !.newPassword = newPassword],
                       users))
        /\ UNCHANGED <<users, assets, nextAsset, clock, delivered, rotated,
                       revoked, loggedOut,
                       issued, omitUndefined>>

\* a change of password that also ends the session
savePasswordEndingSession(us, id, newPassword) ==
    [us EXCEPT ![id].password =
         preSave([us[id] EXCEPT !.password = newPassword], TRUE).password,
               ![id].refreshToken = NoToken]

\* user.password = newPassword; user.save({ validateBeforeSave: false }):
\* the save hook hashes the modified password, and save writes that path
savePassword(us, id, newPassword) ==
    [us EXCEPT ![id].password =
         preSave([us[id] EXCEPT !.password = newPassword], TRUE).password]

\* the save and the response of changeCurrentPassword
ChangePasswordSave(r) ==
    /\ req[r].pc = "cpSave"
    /\ users' = savePassword(users, req[r].uid, req[r].newPassword)
    /\ Continue(r, [req[r] EXCEPT !.pc = "done", !.status = 200,
                      !.message = "password updated successfully."])
    /\ UNCHANGED <<assets, nextAsset, clock, delivered, rotated, revoked,
                   loggedOut, issued,
                   nreq, omitUndefined>>

\* ------------------------------------------------------------- update-user
\* updateUserDetails: one findByIdAndUpdate, guarded by the unique indexes
updateUserDetails(rec, us) ==
    LET given(f) == f # Missing /\ f # ""
        email == toLowerCase(rec.email)
    IN IF ~given(rec.fullName) \/ ~given(rec.email)
       THEN [users |-> us,
             rec |-> Throw(rec, 401, "fullname and email are required.")]
       ELSE IF ~UniqueOk(us, rec.uid, us[rec.uid].username, email)
       THEN [users |-> us, rec |-> Throw(rec, 500, "E11000 duplicate key")]
       ELSE [users |-> [us EXCEPT ![rec.uid].fullName = rec.fullName,
                                  ![rec.uid].email = email],
             rec |-> [rec EXCEPT !.pc = "done", !.status = 200,
                        !.message = "user updated successfully.",
                        !.respFields = selectFields({"password", "refreshToken"})]]

UpdateUserDetails(r) ==
    \E id \in Ids, i \in UpdateInputs :
        /\ CanStart(r)
        /\ Authenticated(id)
        /\ LET out == updateUserDetails(
                         [Idle EXCEPT !.op = "updateDetails", !.uid = id,
                                      !.fullName = i.fullName, !.email = i.email],
                         users)
           IN /\ users' = out.users
              /\ Begin(r, out.rec)
        /\ UNCHANGED <<assets, nextAsset, clock, delivered, rotated, revoked,
                       loggedOut, issued, omitUndefined>>

\* ----------------------------------------------------------- update-avatar
\* verifyJWT leaves the user's record as it is now in req.user; then the
\* check of the uploaded file and uploadOnCloudinary(newAvatarLocalPath)
AvatarStart(r) ==
    \E id \in Ids, file \in BOOLEAN, ok \in BOOLEAN :
        /\ CanStart(r)
        /\ Authenticated(id)
        /\ ok => file
        /\ LET rec == [Idle EXCEPT !.op = "updateAvatar", !.uid = id,
                                   !.files = IF file THEN "avatar" ELSE "undefined",
                                   !.tempFiles = IF file THEN {"avatar"} ELSE {},
                                   !.oldAssetId = users[id].avatarId]
               sent == uploadOnCloudinary(rec, "avatar")
           IN Begin(r,
                  IF ~file THEN Throw(rec, 400, "Avatar file is missing.")
                  ELSE IF ~ok
                  THEN Throw(sent, 400, "Error while uploading a new avatar to cloudinary.")
                  ELSE [sent EXCEPT !.pc = "avUpdate", !.avatarAsset = nextAsset])
        /\ assets' = IF ok THEN assets \cup {nextAsset} ELSE assets
        /\ nextAsset' = IF ok THEN nextAsset + 1 ELSE nextAsset
        /\ UNCHANGED <<users, clock, delivered, rotated, revoked, loggedOut,
                       issued, omitUndefined>>

\* an update that writes the new URL and leaves the old asset id
setAvatarUrlOnly(us, id, asset) == [us EXCEPT ![id].avatar = Url(asset)]

\* findByIdAndUpdate(id, { $set: { avatar, avatarId } })
setAvatar(us, id, asset) ==
    [us EXCEPT ![id].avatar = Url(asset), ![id].avatarId = asset]

\* the update of the record, then the check of req.user.avatarId
AvatarUpdate(r) ==
    /\ req[r].pc = "avUpdate"
    /\ users' = setAvatar(users, req[r].uid, req[r].avatarAsset)
    /\ LET rec == [req[r] EXCEPT !.replacedId = users[req[r].uid].avatarId]
       IN Continue(r, IF rec.oldAssetId = NoAsset
                      THEN Throw(rec, 400, "unauthorized request.")
                      ELSE [rec EXCEPT !.pc = "avDelete"])
    /\ UNCHANGED <<assets, nextAsset, clock, delivered, rotated, revoked,
                   loggedOut, issued, nreq, omitUndefined>>

\* deleteOnCloudinary(publicId): the destroy call answers (also for an asset
\* that is already gone) or throws, and a throw is returned as null
deleteOnCloudinary(as, publicId, throws) ==
    IF throws THEN [assets |-> as, response |-> FALSE]
    ELSE [assets |-> as \ {publicId}, response |-> TRUE]

\* the fields updateUserAvatar leaves out of the user it returns
avatarExcluded == {"password", "refreshToken", "avatarId", "coverImageId"}

\* deleteOnCloudinary(oldAvatarId) and the response of updateUserAvatar
AvatarDelete(r) ==
    \E throws \in BOOLEAN :
        /\ req[r].pc = "avDelete"
        /\ LET out == deleteOnCloudinary(assets, req[r].oldAssetId, throws)
               rec == [req[r] EXCEPT !.deletes =
                         Append(@, [publicId |-> req[r].oldAssetId,
                                    ok |-> out.response])]
           IN /\ assets' = out.assets
              /\ Continue(r,
                    IF ~out.response
                    THEN Throw(rec, 400, "Error while deleting the current avatar")
                    ELSE [rec EXCEPT !.pc = "done", !.status = 200,
                            !.message = "avatar successfully updated.",
                            !.respFields = selectFields(avatarExcluded)])
        /\ UNCHANGED <<users, nextAsset, clock, delivered, rotated, revoked,
                       loggedOut, issued, nreq,
                       omitUndefined>>

\* ------------------------------------------------------------ update-cover
\* verifyJWT leaves the user's record as it is now in req.user; then the
\* check of the uploaded file and uploadOnCloudinary(newCoverImagePath)
CoverStart(r) ==
    \E id \in Ids, file \in BOOLEAN, ok \in BOOLEAN :
        /\ CanStart(r)
        /\ Authenticated(id)
        /\ ok => file
        /\ LET rec == [Idle EXCEPT !.op = "updateCover", !.uid = id,
                                   !.files = IF file THEN "coverImage" ELSE "undefined",
                                   !.tempFiles = IF file THEN {"coverImage"} ELSE {},
                                   !.oldAssetId = users[id].coverImageId]
               sent == uploadOnCloudinary(rec, "coverImage")
           IN Begin(r,
                  IF ~file THEN Throw(rec, 400, "cover image file missing.")
                  ELSE IF ~ok
                  THEN Throw(sent, 400, "Error while uploading the cover image to cloudinary.")
                  ELSE [sent EXCEPT !.pc = "cvUpdate", !.coverAsset = nextAsset])
        /\ assets' = IF ok THEN assets \cup {nextAsset} ELSE assets
        /\ nextAsset' = IF ok THEN nextAsset + 1 ELSE nextAsset
        /\ UNCHANGED <<users, clock, delivered, rotated, revoked, loggedOut,
                       issued, omitUndefined>>

\* an update that writes the new URL and leaves the old asset id
setCoverImageUrlOnly(us, id, asset) == [us EXCEPT ![id].coverImage = Url(asset)]

\* findByIdAndUpdate(id, { $set: { coverImage, coverImageId } })
setCoverImage(us, id, asset) ==
    [us EXCEPT ![id].coverImage = Url(asset), ![id].coverImageId = asset]

\* a handler that goes on to the delete call whatever req.user holds
checkOldCoverIdSkipped(rec) == [rec EXCEPT !.pc = "cvDelete"]

\* const oldCoverId = req.user?.coverImageId; if (!oldCoverId) throw
checkOldCoverId(rec) ==
    IF rec.oldAssetId = NoAsset
    THEN Throw(rec, 400, "unauthorized request.")
    ELSE [rec EXCEPT !.pc = "cvDelete"]

\* the update of the record, then the check of req.user.coverImageId
CoverUpdate(r) ==
    /\ req[r].pc = "cvUpdate"
    /\ users' = setCoverImage(users, req[r].uid, req[r].coverAsset)
    /\ Continue(r, checkOldCoverId(
                      [req[r] EXCEPT !.replacedId = users[req[r].uid].coverImageId]))
    /\ UNCHANGED <<assets, nextAsset, clock, delivered, rotated, revoked,
                   loggedOut, issued, nreq, omitUndefined>>

\* the fields updateUserCoverImage leaves out of the user it returns
coverExcluded == {"password", "refreshToken", "avatarId", "coverImageId"}

\* deleteOnCloudinary(oldCoverId) and the response of updateUserCoverImage
CoverDelete(r) ==
    \E throws \in BOOLEAN :
        /\ req[r].pc = "cvDelete"
        /\ LET out == deleteOnCloudinary(assets, req[r].oldAssetId, throws)
               rec == [req[r] EXCEPT !.deletes =
                         Append(@, [publicId |-> req[r].oldAssetId,
                                    ok |-> out.response])]
           IN /\ assets' = out.assets
              /\ Continue(r,
                    IF ~out.response
                    THEN Throw(rec, 400, "Error while deleting the current cover image")
                    ELSE [rec EXCEPT !.pc = "done", !.status = 200,
                            !.message = "cover image successfully updated.",
                            !.respFields = selectFields(coverExcluded)])
        /\ UNCHANGED <<users, nextAsset, clock, delivered, rotated, revoked,
                       loggedOut, issued, nreq,
                       omitUndefined>>

\* ------------------------------------------------------------ specification
Next ==
    \/ \E r \in Slots : RegisterStart(r)
    \/ \E r \in Slots : RegisterUpload(r)
    \/ \E r \in Slots : LoginStart(r)
    \/ \E r \in Slots : GenLoad(r)
    \/ \E r \in Slots : GenSave(r)
    \/ \E r \in Slots : LoginRespond(r)
    \/ \E r \in Slots : LogoutUser(r)
    \/ \E r \in Slots : RefreshStart(r)
    \/ \E r \in Slots : UpdateUserDetails(r)
    \/ \E r \in Slots : AvatarStart(r)
    \/ \E r \in Slots : AvatarUpdate(r)
    \/ \E r \in Slots : AvatarDelete(r)
    \/ \E r \in Slots : CoverStart(r)
    \/ \E r \in Slots : CoverUpdate(r)
    \/ \E r \in Slots : CoverDelete(r)
    \/ \E r \in Slots : ChangePasswordStart(r)
    \/ \E r \in Slots : ChangePasswordSave(r)

Spec == Init /\ [][Next]_vars

\* ------------------------------------------------------------------ claims
\* the request that starts in this step (Idle when none does): it is in
\* last' when it was answered at once, else in the slot it took
NewRequest ==
    IF nreq' = nreq THEN Idle
    ELSE IF last'.pc = "done" THEN last'
    ELSE LET r == CHOOSE r \in Slots : Free(r) /\ req'[r].pc # "idle"
         IN req'[r]

\* C1: single-use rotation. A refresh call answered 200 that no other request
\* overlapped leaves the token it signed on the user's record, and a refresh
\* call that presents a token which an earlier successful refresh call
\* presented is answered 401.
C1_SingleUseRotation ==
    /\ (last.op = "refresh" /\ last.status = 200 /\ last.alone)
          => users[last.uid].refreshToken = last.refreshToken
    /\ (last.op = "refresh" /\ last.late) => last.status = 401

\* C2: a refresh call answered 200 returns the new access token and the new
\* refresh token in the cookies and in the body, and the refresh token it
\* returns is the one stored on the user's record.
C2_RefreshReturnsStoredToken ==
    (last.op = "refresh" /\ last.status = 200)
       => /\ last.cookieAccess = last.accessToken
          /\ last.bodyAccess = last.accessToken
          /\ last.accessToken # NoToken
          /\ last.cookieRefresh = users[last.uid].refreshToken
          /\ last.bodyRefresh = users[last.uid].refreshToken
          /\ last.bodyRefresh # NoToken

\* C3: when a login that no other request overlapped is answered 200, the
\* refresh token on the user's record is the one in the body and the cookie.
C3_LoginStoresReturnedToken ==
    (last.op = "login" /\ last.status = 200 /\ last.alone)
       => /\ users[last.uid].refreshToken = last.bodyRefresh
          /\ users[last.uid].refreshToken = last.cookieRefresh
          /\ last.bodyRefresh # NoToken

C3_Witness == last.op = "login" /\ last.status = 200 /\ last.alone

\* the token is validly signed for a user whose stored token is another one
Stale(t, us) ==
    /\ jwtVerifyRefresh(t)
    /\ t.uid \in 1..Len(us)
    /\ t # us[t.uid].refreshToken

\* C4: a refresh call with no token, or with a validly signed token that is
\* not the one stored on its user's record, is answered 401 at once: it
\* signs no token and leaves the store and the clients' tokens as they were.
C4_StaleRefreshRejected ==
    [][LET n == NewRequest
       IN (n.op = "refresh" /\ (n.incoming = NoToken \/ Stale(n.incoming, users)))
             => /\ n.pc = "done" /\ n.status = 401
                /\ n.accessToken = NoToken /\ n.refreshToken = NoToken
                /\ users' = users /\ delivered' = delivered]_vars

C4_Witness ==
    /\ last.op = "refresh" /\ last.status = 401
    /\ last.message = "refresh token is expired or used."
    /\ Stale(last.incoming, users)

\* C5: when logout is answered, the user's stored refresh token is absent,
\* and a later refresh call with the token stored before the logout is
\* answered 401.
C5_LogoutClearsToken ==
    /\ (last.op = "logout" /\ last.status = 200)
          => users[last.uid].refreshToken = NoToken
    /\ (last.op = "refresh" /\ last.afterLogout) => last.status = 401

\* the login request names an existing user and carries another password
WrongPassword(n, us) ==
    LET existingUser == findOne(us, n.username, n.email)
    IN existingUser # 0 /\ ~isPasswordCorrect(us[existingUser], n.password)

\* C6: a login that names an existing user with a password that does not
\* match is answered 401 at once, with no token signed or set as a cookie
\* and the store unchanged.
C6_WrongPasswordUnauthorized ==
    [][LET n == NewRequest
       IN (n.op = "login" /\ WrongPassword(n, users))
             => /\ n.pc = "done" /\ n.status = 401
                /\ tokensOf(n) = {} /\ n.refreshToken = NoToken
                /\ users' = users /\ delivered' = delivered]_vars

\* the register request passes the checks of its text fields other than the
\* case of the username, and its username (lowercased) or its email is that
\* of a registered user
Taken(n, us) ==
    /\ n.fullName # "" /\ n.password # "" /\ isEmail(n.email)
    /\ \E j \in 1..Len(us) : \/ us[j].username = toLowerCase(n.username)
                             \/ us[j].email = n.email

\* C7, as claimed: a register call whose username, in any case, or whose
\* email is that of a registered user is answered 409 and creates no record.
C7_Original ==
    [][LET n == NewRequest
       IN (n.op = "register" /\ Taken(n, users))
             => n.pc = "done" /\ n.status = 409 /\ users' = users]_vars

\* C7, amended: such a call is answered 409 when its username is lowercase
\* and 400 (username should be lowercase) when it is not; in both cases no
\* record is created.
C7_DuplicateRegisterRejected ==
    [][LET n == NewRequest
       IN (n.op = "register" /\ Taken(n, users))
             => /\ n.pc = "done" /\ users' = users
                /\ n.status = IF isLowercase(n.username) THEN 409 ELSE 400]_vars

C7_Witness ==
    /\ last.op = "register" /\ last.status = 409
    /\ \E j \in Ids : users[j].username = last.username

\* no two records share a username or an email
UniqueStore(us) ==
    \A i, j \in 1..Len(us) :
        i # j => us[i].username # us[j].username /\ us[i].email # us[j].email

\* the request answered in this step was refused as a duplicate
DuplicateRefused(rec) ==
    /\ rec.op \in {"register", "updateDetails"}
    /\ rec.status = 409 \/ rec.message = "E11000 duplicate key"

\* C8: no two user records ever share a username or an email, and the step
\* that refuses a register or update-user request as a duplicate changes no
\* record.
C8_UniqueUsers ==
    /\ UniqueStore(users)
    /\ [][/\ UniqueStore(users')
          /\ DuplicateRefused(last') => users' = users]_vars

C8_Witness ==
    /\ last.op = "updateDetails" /\ last.message = "E11000 duplicate key"
    /\ \E j \in Ids : j # last.uid /\ users[j].email = last.email

\* C9: when a registration is answered 201, the password on the created
\* record is the bcrypt digest and not the text that was sent, and the
\* record returned has no password, refreshToken, avatarId or coverImageId.
C9_RegisterHidesSecrets ==
    (last.op = "register" /\ last.status = 201)
       => /\ users[last.uid].username = last.username
          /\ users[last.uid].password = bcryptHash(last.password)
          /\ users[last.uid].password # last.password
          /\ last.respFields \cap {"password", "refreshToken", "avatarId",
                                   "coverImageId"} = {}

C9_Witness == last.op = "register" /\ last.status = 201

\* C10: an avatar update for a user whose record, as read before the update,
\* held an avatar asset id, and whose upload succeeded, made exactly one
\* delete call, for that id, and is answered 200 when the delete call
\* succeeded and 400 when it failed.  When no other request overlapped it,
\* that id is the one the record held until the update wrote, and the record
\* holds the new URL and id, after a failed delete call too.
C10_AvatarReplaced ==
    (/\ last.op = "updateAvatar"
     /\ last.avatarAsset # NoAsset /\ last.oldAssetId # NoAsset)
       => /\ Len(last.deletes) = 1
          /\ last.deletes[1].publicId = last.oldAssetId
          /\ last.oldAssetId # last.avatarAsset
          /\ last.status = IF last.deletes[1].ok THEN 200 ELSE 400
          /\ last.alone =>
                /\ last.replacedId = last.oldAssetId
                /\ users[last.uid].avatarId = last.avatarAsset
                /\ users[last.uid].avatar = Url(last.avatarAsset)

C10_Witness ==
    /\ last.op = "updateAvatar" /\ last.alone /\ last.status = 400
    /\ Len(last.deletes) = 1 /\ ~last.deletes[1].ok
    /\ users[last.uid].avatarId = last.avatarAsset

\* how many times the request called fs.unlinkSync on the temporary file
Unlinks(rec, field) ==
    Cardinality({k \in 1..Len(rec.unlinked) : rec.unlinked[k] = field})

\* C11: when a register, update-avatar or update-cover request is answered,
\* on whatever path, each temporary file that came with it has been deleted
\* exactly once.
C11_TempFilesReleased ==
    (last.op \in {"register", "updateAvatar", "updateCover"})
       => \A f \in last.tempFiles : Unlinks(last, f) = 1

\* C12: in every state, a user's avatarId and coverImageId, when not empty,
\* each name an asset that exists at the media host, whatever register,
\* update-avatar and update-cover requests ran and however they overlapped.
C12_ReferencedAssetsExist ==
    \A id \in Ids :
        /\ users[id].avatarId # NoAsset => users[id].avatarId \in assets
        /\ users[id].coverImageId # NoAsset => users[id].coverImageId \in assets

\* an update that another update of the same field of the same user
\* overlapped has deleted the asset named in its req.user
C12_Witness ==
    /\ last.op \in {"updateAvatar", "updateCover"} /\ last.status = 200
    /\ ~last.alone /\ last.replacedId # last.oldAssetId
    /\ last.oldAssetId \notin assets

\* a login or refresh-token request for user id is in flight
Issuing(id) ==
    \E r \in Slots : /\ Busy(r) /\ req[r].op \in {"login", "refresh"}
                     /\ req[r].uid = id

\* C13: whenever no login or refresh-token request for a user is in flight,
\* the user's stored refresh token, if there is one, is the refresh token
\* signed last for that user.
C13_StoredIsLatestIssued ==
    \A id \in DOMAIN issued :
        (~Issuing(id) /\ users[id].refreshToken # NoToken /\ issued[id] # NoToken)
           => users[id].refreshToken = issued[id]

\* C17: when generateAccessAndRefreshTokens could not load or save the user
\* record, the login or refresh-token request that called it is answered
\* with status 500.
C17_RotationFailureIsInternalError ==
    (last.op \in {"login", "refresh"} /\ last.fault) => last.status = 500

\* C14: in register, a failed avatar upload is answered 400 and no record is
\* created; with the avatar uploaded and the cover image not sent or its
\* upload failed, a registration that nothing overlapped is answered 201
\* and its record has an empty coverImage and coverImageId.  A record is
\* only ever created by a registration whose avatar upload succeeded.
C14_RegisterUploads ==
    /\ [](/\ (/\ last.op = "register" /\ last.unlinked # <<>>
              /\ last.avatarAsset = NoAsset)
                => last.status = 400 /\ last.message = "avatar is required."
          /\ (last.op = "register" /\ last.avatarAsset # NoAsset /\ last.alone)
                => last.status = 201
          /\ (/\ last.op = "register" /\ last.status = 201
              /\ last.coverAsset = NoAsset)
                => /\ users[last.uid].coverImage = NoUrl
                   /\ users[last.uid].coverImageId = NoAsset)
    /\ [][/\ (last'.op = "register" /\ last'.status # 201) => users' = users
          /\ Len(users') # Len(users)
                => /\ last'.op = "register" /\ last'.avatarAsset \in assets'
                   /\ users' = Append(users, users'[Len(users')])
                   /\ users'[Len(users')].avatarId = last'.avatarAsset
                   /\ users'[Len(users')].avatar = Url(last'.avatarAsset)]_vars

\* a registration with a cover image whose upload failed is answered 201
C14_Witness ==
    /\ last.op = "register" /\ last.status = 201
    /\ last.files = "avatar+cover" /\ last.coverAsset = NoAsset
    /\ users[last.uid].coverImage = NoUrl

\* the field was sent and is not empty
Given(f) == f # Missing /\ f # ""

\* C15: a login request in which an email that is sent is not a valid
\* email, or a username that is sent is not lowercase, is answered 400 by
\* the checks of its fields, before the store is read.
C15_LoginFormatChecked ==
    [][LET n == NewRequest
       IN (/\ n.op = "login"
           /\ \/ Given(n.email) /\ ~isEmail(n.email)
              \/ Given(n.username) /\ ~isLowercase(n.username))
             => /\ n.pc = "done" /\ n.status = 400
                /\ n.message \in {"all fields are must",
                                  "email or username is invalid."}]_vars

\* the login request names an existing user by exactly one well-formed
\* identifier and carries that user's password
OneIdentifier(n, us) ==
    /\ Given(n.email) # Given(n.username)
    /\ Given(n.email) => isEmail(n.email)
    /\ Given(n.username) => isLowercase(n.username)
    /\ findOne(us, n.username, n.email) # 0
    /\ isPasswordCorrect(us[findOne(us, n.username, n.email)], n.password)

\* C16: a login request with exactly one well-formed identifier of an
\* existing user and the right password passes every check and, unless the
\* store fails under it, is answered 200; a login request with neither
\* identifier is answered 400.
C16_LoginOneIdentifier ==
    /\ [][LET n == NewRequest
          IN /\ (n.op = "login" /\ OneIdentifier(n, users))
                   => n.pc = "genLoad" /\ n.uid = findOne(users, n.username, n.email)
             /\ (n.op = "login" /\ ~Given(n.email) /\ ~Given(n.username))
                   => n.pc = "done" /\ n.status = 400]_vars
    /\ []((last.op = "login" /\ last.uid # 0 /\ ~last.fault)
              => last.status = 200)

C16_Witness ==
    /\ last.op = "login" /\ last.status = 200
    /\ last.email = Missing /\ last.username = "ann"
    /\ last.cookieRefresh # NoToken

\* the asset the update request uploaded (NoAsset when it uploaded none)
Uploaded(rec) ==
    IF rec.op = "updateAvatar" THEN rec.avatarAsset ELSE rec.coverAsset

\* the asset id and URL the record holds in the field the request updates
Held(rec, us) ==
    IF rec.op = "updateAvatar"
    THEN <<us[rec.uid].avatarId, us[rec.uid].avatar>>
    ELSE <<us[rec.uid].coverImageId, us[rec.uid].coverImage>>

\* C18: an update-avatar or update-cover request that uploaded its file and
\* that nothing overlapped takes the previous asset id as the record held
\* it before the update; and when the previous asset id is empty, the
\* request is answered 400 without a delete call, the record holding the
\* new URL and asset id.
C18_NoPreviousAsset ==
    (last.op \in {"updateAvatar", "updateCover"} /\ Uploaded(last) # NoAsset)
       => /\ last.alone => last.oldAssetId = last.replacedId
          /\ last.oldAssetId = NoAsset
                => /\ last.status = 400 /\ last.deletes = <<>>
                   /\ last.alone =>
                         Held(last, users) = <<Uploaded(last), Url(Uploaded(last))>>

C18_Witness ==
    /\ last.op = "updateCover" /\ last.coverAsset # NoAsset
    /\ last.oldAssetId = NoAsset /\ last.status = 400 /\ last.alone
    /\ users[last.uid].coverImageId = last.coverAsset

\* C19: a change-password request whose oldPassword does not match the
\* stored hash is answered 401 and no record changes; one that is answered
\* 200 and that nothing overlapped leaves the hash of newPassword stored,
\* which newPassword matches and, when the two differ, oldPassword does not;
\* and login goes past its password check exactly with the password whose
\* hash is stored.
C19_ChangePassword ==
    /\ [][LET n == NewRequest
          IN /\ (/\ n.op = "changePassword"
                 /\ ~isPasswordCorrect(users[n.uid], n.password))
                   => n.pc = "done" /\ n.status = 401 /\ users' = users
             /\ (n.op = "login" /\ n.pc = "genLoad")
                   => isPasswordCorrect(users[n.uid], n.password)
             /\ (n.op = "login" /\ WrongPassword(n, users))
                   => n.pc = "done" /\ n.status # 200]_vars
    /\ []((last.op = "changePassword" /\ last.status = 200 /\ last.alone)
              => /\ users[last.uid].password = bcryptHash(last.newPassword)
                 /\ isPasswordCorrect(users[last.uid], last.newPassword)
                 /\ last.newPassword # last.password
                       => ~isPasswordCorrect(users[last.uid], last.password))

\* after a change of ann's password from p1 to p2, a login with p2 has
\* passed the password check
C19_Witness ==
    \E r \in Slots :
        /\ req[r].op = "login" /\ req[r].pc = "genLoad" /\ req[r].password = "p2"
        /\ users[req[r].uid].password = bcryptHash("p2")

\* C20: an update-user request without fullName or without email is answered
\* 400 and no record changes; one with both that is answered 200 has set
\* fullName and email on the user's record, nothing else, and returns the
\* record without password and refreshToken.
C20_UpdateProfileFields ==
    [][LET n == NewRequest
       IN /\ (n.op = "updateDetails" /\ (~Given(n.fullName) \/ ~Given(n.email)))
                => n.pc = "done" /\ n.status = 400 /\ users' = users
          /\ (n.op = "updateDetails" /\ n.status = 200)
                => /\ users' = [users EXCEPT ![n.uid].fullName = n.fullName,
                                             ![n.uid].email = n.email]
                   /\ n.respFields \cap {"password", "refreshToken"} = {}]_vars

\* C21: a refresh token is accepted at most once, also by refresh-token
\* requests that overlap: a request answered 200, whose token no successful
\* request had presented when it began, does not present a token that a
\* successful request has presented since.
C21_TokenAcceptedOnce ==
    [][(last'.op = "refresh" /\ last'.status = 200 /\ ~last'.late)
          => last'.incoming \notin rotated]_vars

\* C22: where logout clears the stored token (a Mongoose release that keeps
\* undefined update values), the stored refresh token of a user who logged
\* out stays absent until a login request naming that user arrives, also
\* when a refresh-token or login request that began before the logout
\* completes after it.
C22_LogoutStaysLoggedOut ==
    ~omitUndefined
       => \A id \in loggedOut : users[id].refreshToken = NoToken

\* an update-avatar request of user id is in flight
UpdatingAvatar(id) ==
    \E r \in Slots : Busy(r) /\ req[r].op = "updateAvatar" /\ req[r].uid = id

\* C23: when an update-avatar request is answered 200 and no other
\* update-avatar request of its user is in flight, whether or not one
\* overlapped it, the avatar asset that its write replaced on the record no
\* longer exists at the media host.
C23_NoOrphanedAvatar ==
    (last.op = "updateAvatar" /\ last.status = 200 /\ ~UpdatingAvatar(last.uid))
       => last.replacedId \notin assets

\* C24: a step changes the stored password of a user only when it answers
\* 200 to a change-password request of that user, and it changes no
\* password of a record other than by that or by creating the record in
\* register: login, refresh-token, logout, update-user, update-avatar and
\* update-cover leave every stored password, and so what it verifies, as
\* it was.
C24_PasswordFrame ==
    [][/\ \A id \in Ids :
             users'[id].password # users[id].password
                => /\ last'.op = "changePassword" /\ last'.status = 200
                   /\ last'.uid = id
                   /\ users'[id].password = bcryptHash(last'.newPassword)
       /\ \A id \in Ids, p \in Passwords :
             last'.op # "changePassword"
                => isPasswordCorrect(users'[id], p) = isPasswordCorrect(users[id], p)
       /\ Len(users') # Len(users) => last'.op = "register"]_vars

\* a login has stored a new refresh token and the password it was given
\* still verifies
C24_Witness ==
    /\ last.op = "login" /\ last.status = 200
    /\ users[last.uid].refreshToken = last.refreshToken
    /\ last.refreshToken # last.docToken
    /\ isPasswordCorrect(users[last.uid], last.password)

\* C25: the step that answers 200 to a change-password request leaves every
\* stored refresh token as it was, and a refresh-token request that presents
\* the token stored for its user goes past the comparison, whatever
\* password changes came before it.
C25_ChangePasswordKeepsSession ==
    [][/\ (last'.op = "changePassword" /\ last'.status = 200)
             => \A id \in Ids : users'[id].refreshToken = users[id].refreshToken
       /\ LET n == NewRequest
          IN (/\ n.op = "refresh" /\ jwtVerifyRefresh(n.incoming)
              /\ n.incoming.uid \in Ids
              /\ n.incoming = users[n.incoming.uid].refreshToken)
                => n.pc = "genLoad" /\ n.uid = n.incoming.uid]_vars

\* after ann changed her password to p2, a refresh-token request with the
\* token she was issued before has passed the comparison
C25_Witness ==
    \E r \in Slots :
        /\ req[r].op = "refresh" /\ req[r].pc = "genLoad"
        /\ req[r].incoming = generateRefreshToken(1, 0)
        /\ users[1].password = bcryptHash("p2")

====
